---- MODULE Spec2Model ----
(***************************************************************************)
(* A model of flocker/node/agents/cinder.py: the Cinder implementation of  *)
(* IBlockDeviceAPI.  The provider (Cinder volume listing, Nova attach      *)
(* requests), the local /dev directory and the wall clock are the shared   *)
(* state; each caller of a CinderBlockDeviceAPI is a process whose program *)
(* counter walks through the statements of the method it is running.       *)
(***************************************************************************)
EXTENDS Integers, Sequences, FiniteSets, TLC

(* ------------------------------ bounds -------------------------------- *)

\* The callers start at most this many calls of the adapter between them.
MaxCalls == 2

\* The device nodes a host may hold before any call are drawn from the
\* letters up to this index (a is 0), besides the full alphabet.
MaxNode == 3

\* wait_for_volume's time_limit parameter, in units of one sleep (0.1 s).
\* The default of 60 s is 600 such units; the loop is the same for any value.
TimeLimit == 2

(* -------------------------- program constants ------------------------- *)

\* bitmath's GB is the SI gigabyte, 10^9 bytes.
BytesPerGB == 1000000000

\* len(string.ascii_lowercase)
NumLetters == 26

CLUSTER_ID_LABEL == "flocker-cluster-id"
DATASET_ID_LABEL == "flocker-dataset-id"

(* ------------------------------ inputs -------------------------------- *)

Procs == {"p1", "p2"}

\* UUID values (not their texts).
Clusters == {"c1", "c2"}
Datasets == {"d1", "d2"}

Hosts == {"h1", "h2"}

\* A byte count n is written in base 10^9, as the pair of n \div 10^9 and
\* n % 10^9: the sizes of volumes lie beyond the integers of the checker.
Bytes(hi, lo) ==
    [hi |-> hi + lo \div BytesPerGB, lo |-> lo % BytesPerGB]

\* 3,000,000,000 bytes.
Sizes == {Bytes(3, 0)}

\* 10 * 2^30 = 10,737,418,240 bytes.
TenGiB == Bytes(10, 737418240)

\* The sizes of the create_volume calls whose conversions are followed:
\* 1.5 GB, 10 GiB and 15 GiB = 16,106,127,360 bytes.
CreateSizes == {Bytes(1, 500000000), TenGiB, Bytes(16, 106127360)}

(* ------------------------- strings and UUIDs -------------------------- *)

\* A metadata value is a text.  A text that spells a UUID does so in the
\* canonical form (lower case, hyphenated: what unicode(uuid) writes) or in
\* another form uuid.UUID accepts (upper case, braces, urn:uuid:); any other
\* text spells none.
Text(form, u) == [form |-> form, uuid |-> u]

\* dict.get's None: the key is not in the metadata.
None == Text("None", "-")

Garbage == Text("garbage", "-")

\* unicode(uuid)
unicode(u) == Text("canonical", u)

\* "ok" with the value, or "ValueError": the text spells no UUID.
UUID(text) ==
    IF text.form \in {"canonical", "other"}
    THEN [ok |-> TRUE, value |-> text.uuid]
    ELSE [ok |-> FALSE, value |-> "-"]

(* ------------------------------- sizes -------------------------------- *)

\* Byte(size).to_GB().value: the float size / 10^9, written as its whole
\* gigabytes and its billionths.
ByteToGB(size) == [whole |-> size.hi, rem |-> size.lo]

\* The values ByteToGB gives for the sizes of CreateSizes whose product with
\* 10^9, in IEEE double arithmetic, lies just below the whole number of
\* bytes: (15 * 2^30 / 1e9) * 1e9 = 16106127359.999998.  For the other
\* sizes of CreateSizes, and for every whole number of gigabytes, the
\* product is the whole number of bytes.
TruncatedByFloat == {ByteToGB(Bytes(16, 106127360))}

\* int(GB(size).to_Byte().value): the float product, truncated by int().
GBToByte(gb) ==
    IF gb \in TruncatedByFloat THEN Bytes(gb.whole, gb.rem - 1)
    ELSE Bytes(gb.whole, gb.rem)

(* ------------------------------ records ------------------------------- *)

\* A metadata dict over the two labels the adapter reads and writes; a key
\* mapped to None is a key the dict does not hold.
Metadata(cluster, dataset) ==
    [l \in {CLUSTER_ID_LABEL, DATASET_ID_LABEL} |->
        IF l = CLUSTER_ID_LABEL THEN cluster ELSE dataset]

NoMetadata == Metadata(None, None)

\* A cinderclient Volume.
Volume(id, status, size, metadata) ==
    [id |-> id, status |-> status, size |-> size, metadata |-> metadata]

NoVolume == Volume(0, "-", ByteToGB(Bytes(0, 0)), NoMetadata)

\* A BlockDeviceVolume.
BlockDeviceVolume(blockdevice_id, size, host, dataset_id) ==
    [blockdevice_id |-> blockdevice_id, size |-> size, host |-> host,
     dataset_id |-> dataset_id]

NoHost == "None"

NoRecord == BlockDeviceVolume(0, Bytes(0, 0), NoHost, "-")

(* ------------------------------ errors -------------------------------- *)

\* An exception: its class and, for UnknownVolume and the timeout, its
\* arguments.  For a ValueError or KeyError the target is ghost bookkeeping
\* of the volume whose label raised it; the exception itself names none.
Error(kind, target, detail) ==
    [kind |-> kind, target |-> target, expected |-> detail.expected,
     elapsed |-> detail.elapsed, limit |-> detail.limit]

NoDetail == [expected |-> "-", elapsed |-> 0, limit |-> 0]

NoError == Error("-", 0, NoDetail)

(* -------------------- ClusterTagger / RecordMapper -------------------- *)

\* A faulty _is_cluster_volume: it accepts any label that spells a UUID,
\* without comparing it with cluster_id.
_is_cluster_volume_uncompared(cluster_id, cinder_volume) ==
    LET actual_cluster_id == cinder_volume.metadata[CLUSTER_ID_LABEL]
    IN  IF actual_cluster_id # None
        THEN IF ~UUID(actual_cluster_id).ok THEN "ValueError" ELSE "True"
        ELSE "False"

\* _is_cluster_volume: "True", "False", or "ValueError" when UUID() rejects
\* the label's text.
_is_cluster_volume(cluster_id, cinder_volume) ==
    LET actual_cluster_id == cinder_volume.metadata[CLUSTER_ID_LABEL]
    IN  IF actual_cluster_id # None
        THEN IF ~UUID(actual_cluster_id).ok THEN "ValueError"
             ELSE IF UUID(actual_cluster_id).value = cluster_id THEN "True"
             ELSE "False"
        ELSE "False"

\* A faulty mapping: the blockdevice_id is read from the size field.
_blockdevicevolume_from_cinder_volume_id_from_size(cinder_volume) ==
    LET label == cinder_volume.metadata[DATASET_ID_LABEL]
    IN  IF label = None \/ ~UUID(label).ok
        THEN [ok |-> FALSE, record |-> NoRecord,
              error |-> Error("ValueError", cinder_volume.id, NoDetail)]
        ELSE [ok |-> TRUE,
              record |-> BlockDeviceVolume(cinder_volume.size.whole,
                                           GBToByte(cinder_volume.size),
                                           NoHost, UUID(label).value),
              error |-> NoError]

\* A mapping that reports a host for a volume the provider has in use.
_blockdevicevolume_from_cinder_volume_host_in_use(cinder_volume) ==
    LET label == cinder_volume.metadata[DATASET_ID_LABEL]
    IN  IF label = None \/ ~UUID(label).ok
        THEN [ok |-> FALSE, record |-> NoRecord,
              error |-> Error("ValueError", cinder_volume.id, NoDetail)]
        ELSE [ok |-> TRUE,
              record |-> BlockDeviceVolume(
                            cinder_volume.id, GBToByte(cinder_volume.size),
                            IF cinder_volume.status = "in-use"
                            THEN "attached" ELSE NoHost,
                            UUID(label).value),
              error |-> NoError]

\* A faulty mapping: a dataset label that spells no UUID is mapped to a
\* record with a substituted dataset_id.
_blockdevicevolume_from_cinder_volume_coerced(cinder_volume) ==
    LET label == cinder_volume.metadata[DATASET_ID_LABEL]
    IN  IF label = None
        THEN [ok |-> FALSE, record |-> NoRecord,
              error |-> Error("KeyError", cinder_volume.id, NoDetail)]
        ELSE [ok |-> TRUE,
              record |-> BlockDeviceVolume(cinder_volume.id,
                                           GBToByte(cinder_volume.size),
                                           NoHost, UUID(label).value),
              error |-> NoError]

\* _blockdevicevolume_from_cinder_volume: the record, or the error of the
\* dataset label's lookup (KeyError) or parse (ValueError).
_blockdevicevolume_from_cinder_volume(cinder_volume) ==
    LET label == cinder_volume.metadata[DATASET_ID_LABEL]
    IN  IF label = None
        THEN [ok |-> FALSE, record |-> NoRecord,
              error |-> Error("KeyError", cinder_volume.id, NoDetail)]
        ELSE IF ~UUID(label).ok
        THEN [ok |-> FALSE, record |-> NoRecord,
              error |-> Error("ValueError", cinder_volume.id, NoDetail)]
        ELSE [ok |-> TRUE,
              record |-> BlockDeviceVolume(cinder_volume.id,
                                           GBToByte(cinder_volume.size),
                                           NoHost, UUID(label).value),
              error |-> NoError]

\* The loop of list_volumes from position i of the provider's listing, with
\* the records appended so far: the first volume that raises ends the call.
RECURSIVE list_volumes_loop(_, _, _, _)
list_volumes_loop(cluster_id, listing, i, acc) ==
    IF i > Len(listing)
    THEN [ok |-> TRUE, records |-> acc, error |-> NoError]
    ELSE LET cinder_volume == listing[i]
             owned == _is_cluster_volume(cluster_id, cinder_volume)
             mapped == _blockdevicevolume_from_cinder_volume(cinder_volume)
         IN  IF owned = "ValueError"
             THEN [ok |-> FALSE, records |-> <<>>,
                   error |-> Error("ValueError", cinder_volume.id, NoDetail)]
             ELSE IF owned = "False"
             THEN list_volumes_loop(cluster_id, listing, i + 1, acc)
             ELSE IF ~mapped.ok
             THEN [ok |-> FALSE, records |-> <<>>, error |-> mapped.error]
             ELSE list_volumes_loop(cluster_id, listing, i + 1,
                                    Append(acc, mapped.record))

\* CinderBlockDeviceAPI.list_volumes over the listing cinder's list() returns.
list_volumes(cluster_id, listing) ==
    list_volumes_loop(cluster_id, listing, 1, <<>>)

\* A faulty _get: it looks the id up among the volumes of every cluster.
_get_any_cluster(cluster_id, listing, blockdevice_id) ==
    LET hits == {i \in 1..Len(listing) : listing[i].id = blockdevice_id}
        first == CHOOSE i \in hits : \A j \in hits : i <= j
    IN  IF hits = {}
        THEN [ok |-> FALSE, record |-> NoRecord,
              error |-> Error("UnknownVolume", blockdevice_id, NoDetail)]
        ELSE _blockdevicevolume_from_cinder_volume(listing[first])

\* CinderBlockDeviceAPI._get: the first listed record with the id, else
\* UnknownVolume; an error of list_volumes passes through.
_get(cluster_id, listing, blockdevice_id) ==
    LET listed == list_volumes(cluster_id, listing)
        hits == {i \in 1..Len(listed.records) :
                    listed.records[i].blockdevice_id = blockdevice_id}
    IN  IF ~listed.ok
        THEN [ok |-> FALSE, record |-> NoRecord, error |-> listed.error]
        ELSE IF hits = {}
        THEN [ok |-> FALSE, record |-> NoRecord,
              error |-> Error("UnknownVolume", blockdevice_id, NoDetail)]
        ELSE [ok |-> TRUE,
              record |-> listed.records[CHOOSE i \in hits :
                                            \A j \in hits : i <= j],
              error |-> NoError]

(* --------------------------- PollingWaiter ---------------------------- *)

\* A faulty inner loop: it returns the listed volume with the expected id
\* whatever its status.
wait_for_volume_match_any_status(listing, expected_id, expected_status) ==
    LET hits == {i \in 1..Len(listing) : listing[i].id = expected_id}
    IN  IF hits = {} THEN 0
        ELSE CHOOSE i \in hits : \A j \in hits : i <= j

\* A faulty inner loop: a listed volume with the expected id ends the wait
\* when its status is the expected one or error.
wait_for_volume_match_or_error(listing, expected_id, expected_status) ==
    LET hits == {i \in 1..Len(listing) :
                    /\ listing[i].id = expected_id
                    /\ listing[i].status \in {expected_status, "error"}}
    IN  IF hits = {} THEN 0
        ELSE CHOOSE i \in hits : \A j \in hits : i <= j

\* The inner loop of wait_for_volume over one listing: the position of the
\* first listed volume with the expected id and status, 0 when there is none.
wait_for_volume_match(listing, expected_id, expected_status) ==
    LET hits == {i \in 1..Len(listing) :
                    /\ listing[i].id = expected_id
                    /\ listing[i].status = expected_status}
    IN  IF hits = {} THEN 0
        ELSE CHOOSE i \in hits : \A j \in hits : i <= j

(* ------------------------ DevicePathAllocator ------------------------- *)

\* A device node /dev/xvd<letter> is the 0-based index of its letter in
\* string.ascii_lowercase.  _next_device: letters[len(existing)], or
\* IndexError when every letter is counted.
_next_device(existing) ==
    IF Cardinality(existing) < NumLetters
    THEN [ok |-> TRUE, device |-> Cardinality(existing)]
    ELSE [ok |-> FALSE, device |-> 0]

(* ------------------------------- state -------------------------------- *)

VARIABLES
    volumes,        \* the provider's volumes, as cinder's list() returns them
    nova_requests,  \* the create_server_volume requests the provider accepted
    devnodes,       \* the /dev/xvd? nodes of the host
    cluster_id,     \* self.cluster_id of the adapter the callers share
    pc,             \* per caller: the statement its call is at
    frame,          \* per caller: the locals of the running call
    created,        \* ghost: the records create_volume returned, by call
    calls,          \* how many calls of the adapter were started
    result          \* what the call that finished in the last step gave back

vars == <<volumes, nova_requests, devnodes, cluster_id, pc, frame, created,
          calls, result>>

\* _instance_uuid(): the identity of the instance the adapter runs on.
local_instance_uuid == "instance-1"

NoArgs ==
    [dataset_id |-> "-", size |-> Bytes(0, 0), blockdevice_id |-> 0,
     host |-> NoHost]

NoFrame ==
    [op |-> "-", args |-> NoArgs, metadata |-> NoMetadata,
     requested_volume |-> NoVolume, unattached_volume |-> NoRecord,
     device_path |-> 0, expected_volume |-> 0, expected_status |-> "-",
     waited |-> 0, lists |-> 0, sleeps |-> 0,
     listed_volume |-> NoVolume, trace |-> <<>>]

\* What a finished wait_for_volume saw: ghost bookkeeping of its loop.
Wait(f, volume, elapsed) ==
    [expected_volume |-> f.expected_volume,
     expected_status |-> f.expected_status,
     lists |-> f.lists, sleeps |-> f.sleeps, elapsed |-> elapsed,
     volume |-> volume]

NoWait == Wait(NoFrame, NoVolume, 0)

NoResult ==
    [status |-> "none", proc |-> "-", op |-> "-", args |-> NoArgs,
     value |-> NoRecord, records |-> <<>>, error |-> NoError, trace |-> <<>>,
     wait |-> NoWait, device_path |-> 0]

\* A call returned `value` (list_volumes: `records`); with it, the volume its
\* wait_for_volume had returned.
Returned(p, f, value, records, trace) ==
    [NoResult EXCEPT !.status = "returned", !.proc = p, !.op = f.op,
                     !.args = f.args, !.value = value, !.records = records,
                     !.trace = trace, !.device_path = f.device_path,
                     !.wait = Wait(f, f.listed_volume, 0)]

\* A call raised `error`.
Raised(p, f, error, trace, wait) ==
    [NoResult EXCEPT !.status = "raised", !.proc = p, !.op = f.op,
                     !.args = f.args, !.error = error, !.trace = trace,
                     !.wait = wait, !.device_path = f.device_path]

\* wait_for_volume returned to the call, which goes on.
WaitReturned(p, f, trace, wait) ==
    [NoResult EXCEPT !.status = "waited", !.proc = p, !.op = f.op,
                     !.args = f.args, !.trace = trace, !.wait = wait]

\* The metadata a volume found on the provider before any adapter ran may
\* carry: none, another cluster's, this cluster's in another spelling,
\* or labels that spell no UUID.
InitialMetadata ==
    { NoMetadata,
      Metadata(unicode("c2"), unicode("d1")),
      Metadata(Text("other", "c1"), unicode("d2")),
      Metadata(Garbage, unicode("d1")),
      Metadata(unicode("c1"), Garbage),
      Metadata(unicode("c1"), None) }

\* The provider before any call: no volume, one volume with any of these
\* metadata, or two volumes of cluster c1.
InitialListings ==
    {<<>>}
    \cup {<<Volume(1, "available", ByteToGB(Bytes(1, 0)), m)>> :
            m \in InitialMetadata}
    \cup {<<Volume(1, "available", ByteToGB(Bytes(1, 0)),
                   Metadata(unicode("c1"), unicode("d1"))),
            Volume(2, "available", ByteToGB(Bytes(2, 0)),
                   Metadata(Text("other", "c1"), unicode("d2")))>>}

\* /dev/xvda is the instance's own disk.
InitialDevNodes == {{0}}

Init ==
    /\ volumes \in InitialListings
    /\ nova_requests = {}
    /\ devnodes \in InitialDevNodes
    /\ cluster_id \in Clusters
    /\ pc = [p \in Procs |-> "idle"]
    /\ frame = [p \in Procs |-> NoFrame]
    /\ created = {}
    /\ calls = 0
    /\ result = NoResult

(* ------------------------- wait_for_volume ---------------------------- *)

\* A faulty wait: it sleeps once before its first listing.
wait_for_volume_start_asleep(f, expected_volume, expected_status) ==
    [f EXCEPT !.expected_volume = expected_volume.id,
              !.expected_status = expected_status,
              !.waited = 1, !.lists = 0, !.sleeps = 1]

\* start_time = time.time(): the locals of a wait that starts now.
wait_for_volume_start(f, expected_volume, expected_status) ==
    [f EXCEPT !.expected_volume = expected_volume.id,
              !.expected_status = expected_status,
              !.waited = 0, !.lists = 0, !.sleeps = 0]

\* Whether the listing shows the awaited volume with the awaited status.
Shows(listing, id, status) ==
    \E i \in 1..Len(listing) : listing[i].id = id /\ listing[i].status = status

\* Ghost: the trace of a call records the first listing that shows the
\* awaited volume with the awaited status, and the first that shows it with
\* status error.
Observe(trace, listing, id, status) ==
    LET seen == IF Shows(listing, id, status) THEN <<status>> ELSE <<>>
        failed == IF /\ Shows(listing, id, "error")
                     /\ \A k \in 1..Len(trace) : trace[k] # "error"
                  THEN <<"error">> ELSE <<>>
    IN  trace \o failed \o seen

\* The locals once the wait is over.
wait_for_volume_end(f, listed_volume) ==
    [f EXCEPT !.listed_volume = listed_volume,
              !.waited = 0, !.lists = 0, !.sleeps = 0]

\* One pass of the for loop over volume_manager.list(): return the match,
\* or go on to read the clock.
wait_for_volume_list(p) ==
    /\ pc[p] = "poll"
    /\ LET f == frame[p]
           m == wait_for_volume_match(volumes, f.expected_volume,
                                      f.expected_status)
           g == [f EXCEPT !.lists = @ + 1,
                          !.trace = Observe(@, volumes, f.expected_volume,
                                            f.expected_status)]
       IN  IF m # 0
           THEN /\ frame' = [frame EXCEPT ![p] =
                                wait_for_volume_end(g, volumes[m])]
                /\ pc' = [pc EXCEPT ![p] =
                            IF f.op = "create" THEN "set_metadata" ELSE "verify"]
                /\ result' = WaitReturned(p, g, g.trace,
                                          Wait(g, volumes[m], g.waited))
           ELSE /\ frame' = [frame EXCEPT ![p] = g]
                /\ pc' = [pc EXCEPT ![p] = "elapsed"]
                /\ result' = NoResult
    /\ UNCHANGED <<volumes, nova_requests, devnodes, cluster_id,
                 calls, created>>

\* What time.time() - start_time may read when the clock last stood at
\* `waited`: listing takes no time or one interval.  A reading past the limit
\* by more than one interval changes nothing the loop does.
clock_readings(waited) ==
    {t \in {waited, waited + 1} : t <= TimeLimit + 1}

\* A faulty test of the limit: the wait never gives up.
within_time_limit_always(elapsed_time, time_limit) == TRUE

\* A faulty test of the limit: it counts the sleep not yet taken.
within_time_limit_early(elapsed_time, time_limit) ==
    elapsed_time + 1 < time_limit

\* if elapsed_time < time_limit
within_time_limit(elapsed_time, time_limit) == elapsed_time < time_limit

\* elapsed_time = time.time() - start_time; sleep for one interval, or raise
\* the timeout.
wait_for_volume_elapsed(p) ==
    /\ pc[p] = "elapsed"
    /\ \E elapsed_time \in clock_readings(frame[p].waited) :
        LET f == frame[p]
        IN  IF within_time_limit(elapsed_time, TimeLimit)
            THEN /\ frame' = [frame EXCEPT ![p] =
                                [f EXCEPT !.sleeps = @ + 1,
                                          !.waited = elapsed_time + 1]]
                 /\ pc' = [pc EXCEPT ![p] = "poll"]
                 /\ result' = NoResult
            ELSE /\ result' =
                    Raised(p, f, Error("Timeout", f.expected_volume,
                                       [expected |-> f.expected_status,
                                        elapsed |-> elapsed_time,
                                        limit |-> TimeLimit]),
                           f.trace, Wait(f, NoVolume, elapsed_time))
                 /\ frame' = [frame EXCEPT ![p] = NoFrame]
                 /\ pc' = [pc EXCEPT ![p] = "idle"]
    /\ UNCHANGED <<volumes, nova_requests, devnodes, cluster_id,
                 calls, created>>

(* --------------------------- create_volume ---------------------------- *)

Idle(p) == pc[p] = "idle"

\* cinder_volume_manager.create(size, metadata): the provider assigns the
\* next id and starts provisioning; it keeps the metadata of the request or
\* drops it.
provider_create(id, size, metadata, kept) ==
    Volume(id, "creating", size, IF kept THEN metadata ELSE NoMetadata)

\* What a provider makes of the size of a create request: it keeps the
\* number as sent, or it allots whole gigabytes and drops the fraction.
SizeRoundings == {"exact", "floor"}

provider_size(gb, rounding) ==
    IF rounding = "exact" THEN gb ELSE [whole |-> gb.whole, rem |-> 0]

\* The metadata create_volume tags the volume with.
create_volume_metadata(cluster, dataset_id) ==
    Metadata(unicode(cluster), unicode(dataset_id))

\* create_volume up to its entry into wait_for_volume: build the metadata,
\* issue the create request, start the wait for the requested volume.
create_volume_request(p, dataset_id, size) ==
    /\ Idle(p)
    /\ calls < MaxCalls
    /\ calls' = calls + 1
    /\ \E kept \in BOOLEAN, rounding \in SizeRoundings :
        LET metadata == create_volume_metadata(cluster_id, dataset_id)
            id == Len(volumes) + 1
            provided == provider_size(ByteToGB(size), rounding)
            requested_volume == Volume(id, "creating", provided, metadata)
            f == [NoFrame EXCEPT !.op = "create",
                                 !.args = [NoArgs EXCEPT !.dataset_id = dataset_id,
                                                         !.size = size],
                                 !.metadata = metadata,
                                 !.requested_volume = requested_volume,
                                 !.trace = <<"create">>]
        IN  /\ volumes' = Append(volumes,
                    provider_create(id, provided, metadata, kept))
            /\ frame' = [frame EXCEPT ![p] =
                    wait_for_volume_start(f, requested_volume, "available")]
    /\ pc' = [pc EXCEPT ![p] = "poll"]
    /\ result' = NoResult
    /\ UNCHANGED <<nova_requests, devnodes, cluster_id, created>>

\* A faulty create_volume: the metadata is not set again.
provider_set_metadata_skipped(listing, volume, metadata) == listing

\* A set_metadata that also tags every volume found without metadata.
provider_set_metadata_adopting(listing, volume, metadata) ==
    [i \in 1..Len(listing) |->
        IF listing[i].id = volume.id \/ listing[i].metadata = NoMetadata
        THEN [listing[i] EXCEPT !.metadata = metadata]
        ELSE listing[i]]

\* cinder_volume_manager.set_metadata(volume, metadata) on the provider.
provider_set_metadata(listing, volume, metadata) ==
    [i \in 1..Len(listing) |->
        IF listing[i].id = volume.id
        THEN [listing[i] EXCEPT !.metadata = metadata]
        ELSE listing[i]]

\* A faulty create_volume: the record is built from the listed volume.
create_volume_returned_listed(requested_volume, created_volume) ==
    created_volume

\* The volume create_volume builds its record from: the requested one,
\* "because it has the desired metadata".
create_volume_returned(requested_volume, created_volume) ==
    requested_volume

\* create_volume after the wait: set the metadata again on the created
\* volume and return the record of the requested volume.
create_volume_set_metadata(p) ==
    /\ pc[p] = "set_metadata"
    /\ LET f == frame[p]
           created_volume == f.listed_volume
           mapped == _blockdevicevolume_from_cinder_volume(
                        create_volume_returned(f.requested_volume,
                                               created_volume))
           trace == Append(f.trace, "set_metadata")
       IN  /\ volumes' = provider_set_metadata(volumes, created_volume, f.metadata)
           /\ result' =
                    IF mapped.ok THEN Returned(p, f, mapped.record, <<>>, trace)
                    ELSE Raised(p, f, mapped.error, trace, NoWait)
           /\ created' = IF mapped.ok
                         THEN created \cup {[call |-> calls,
                                             record |-> mapped.record]}
                         ELSE created
    /\ frame' = [frame EXCEPT ![p] = NoFrame]
    /\ pc' = [pc EXCEPT ![p] = "idle"]
    /\ UNCHANGED <<nova_requests, devnodes, cluster_id, calls>>

(* ---------------------------- list_volumes ---------------------------- *)

list_volumes_call(p) ==
    /\ Idle(p)
    /\ calls < MaxCalls
    /\ calls' = calls + 1
    /\ LET f == [NoFrame EXCEPT !.op = "list"]
           listed == list_volumes(cluster_id, volumes)
       IN  result' =
                IF listed.ok THEN Returned(p, f, NoRecord, listed.records, <<>>)
                ELSE Raised(p, f, listed.error, <<>>, NoWait)
    /\ UNCHANGED <<volumes, nova_requests, devnodes, cluster_id,
                 pc, frame, created>>

(* ---------------------------- attach_volume --------------------------- *)

\* unattached_volume = self._get(blockdevice_id)
attach_volume_get(p, blockdevice_id, host) ==
    /\ Idle(p)
    /\ calls < MaxCalls
    /\ calls' = calls + 1
    /\ LET f == [NoFrame EXCEPT !.op = "attach",
                                !.args = [NoArgs EXCEPT
                                            !.blockdevice_id = blockdevice_id,
                                            !.host = host]]
           got == _get(cluster_id, volumes, blockdevice_id)
       IN  IF got.ok
           THEN /\ frame' = [frame EXCEPT ![p] =
                                [f EXCEPT !.unattached_volume = got.record]]
                /\ pc' = [pc EXCEPT ![p] = "next_device"]
                /\ result' = NoResult
           ELSE /\ result' = Raised(p, f, got.error, <<>>, NoWait)
                /\ UNCHANGED <<frame, pc>>
    /\ UNCHANGED <<volumes, nova_requests, devnodes, cluster_id, created>>

\* An allocator that also counts the device names of the attach requests
\* already sent: a reservation the code does not make.
existing_devices_reserving(nodes) ==
    nodes \cup {r.device : r \in nova_requests}

\* The device nodes _next_device counts: FilePath('/dev').children() with
\* the prefix and a basename of four characters.
existing_devices(nodes) == nodes

\* device_path = _next_device()
attach_volume_next_device(p) ==
    /\ pc[p] = "next_device"
    /\ LET f == frame[p]
           next == _next_device(existing_devices(devnodes))
       IN  IF next.ok
           THEN /\ frame' = [frame EXCEPT ![p] =
                                [f EXCEPT !.device_path = next.device,
                                          !.trace = Append(@, "path")]]
                /\ pc' = [pc EXCEPT ![p] = "create_server_volume"]
                /\ result' = NoResult
           ELSE /\ result' =
                    Raised(p, f, Error("IndexError", f.args.blockdevice_id,
                                       NoDetail),
                           f.trace, NoWait)
                /\ frame' = [frame EXCEPT ![p] = NoFrame]
                /\ pc' = [pc EXCEPT ![p] = "idle"]
    /\ UNCHANGED <<volumes, nova_requests, devnodes, cluster_id,
                 calls, created>>

\* nova's create_server_volume on the provider: a volume that is available
\* starts attaching; any other is refused.
provider_accepts_attach(listing, volume_id) ==
    \E i \in 1..Len(listing) :
        listing[i].id = volume_id /\ listing[i].status = "available"

provider_attaching(listing, volume_id) ==
    [i \in 1..Len(listing) |->
        IF listing[i].id = volume_id
        THEN [listing[i] EXCEPT !.status = "attaching"]
        ELSE listing[i]]

\* nova_volume = self.nova_volume_manager.create_server_volume(...), then the
\* entry into wait_for_volume for status in-use.
attach_volume_request(p) ==
    /\ pc[p] = "create_server_volume"
    /\ LET f == frame[p]
           volume_id == f.unattached_volume.blockdevice_id
           request == [server_id |-> local_instance_uuid,
                       volume_id |-> volume_id, device |-> f.device_path]
           nova_volume == [id |-> volume_id]
           g == [f EXCEPT !.trace = Append(@, "create_server_volume")]
       IN  IF provider_accepts_attach(volumes, volume_id)
           THEN /\ volumes' = provider_attaching(volumes, volume_id)
                /\ nova_requests' = nova_requests \cup {request}
                /\ frame' = [frame EXCEPT ![p] =
                                wait_for_volume_start(g, nova_volume, "in-use")]
                /\ pc' = [pc EXCEPT ![p] = "poll"]
                /\ result' = NoResult
           ELSE /\ result' =
                    Raised(p, f, Error("ProviderError", volume_id, NoDetail),
                           g.trace, NoWait)
                /\ frame' = [frame EXCEPT ![p] = NoFrame]
                /\ pc' = [pc EXCEPT ![p] = "idle"]
                /\ UNCHANGED <<volumes, nova_requests>>
    /\ UNCHANGED <<devnodes, cluster_id, calls, created>>

\* A faulty check: the assertion is not evaluated.
device_exists_unchecked(nodes, device_path) == TRUE

\* FilePath(device_path).exists()
device_exists(nodes, device_path) == device_path \in nodes

\* A faulty update: the record is returned as it was looked up.
set_host_skipped(unattached_volume, host) == unattached_volume

\* unattached_volume.set('host', host): a new record, the others' fields kept.
set_host(unattached_volume, host) ==
    [unattached_volume EXCEPT !.host = host]

\* assert FilePath(device_path).exists(); return the record with the host set.
attach_volume_verify(p) ==
    /\ pc[p] = "verify"
    /\ LET f == frame[p]
           attached_volume == set_host(f.unattached_volume, f.args.host)
       IN  result' =
                IF device_exists(devnodes, f.device_path)
                THEN Returned(p, f, attached_volume, <<>>,
                              Append(f.trace, "exists"))
                ELSE Raised(p, f, Error("AssertionError", f.args.blockdevice_id,
                                        NoDetail),
                            f.trace, NoWait)
    /\ frame' = [frame EXCEPT ![p] = NoFrame]
    /\ pc' = [pc EXCEPT ![p] = "idle"]
    /\ UNCHANGED <<volumes, nova_requests, devnodes, cluster_id,
                 calls, created>>

(* ------------- detach, destroy, resize, get_device_path --------------- *)

\* The bodies of the four methods are `pass`: what each makes of the
\* provider's volumes.
detach_volume(listing, blockdevice_id) == listing

\* A destroy_volume that deletes the volume on the provider.
destroy_volume_deleting(listing, blockdevice_id) ==
    SelectSeq(listing, LAMBDA v : v.id # blockdevice_id)

destroy_volume(listing, blockdevice_id) == listing

resize_volume(listing, blockdevice_id, size) == listing

get_device_path(listing, blockdevice_id) == listing

\* A call of one of the four: it returns None at once.
Pass(p, op, blockdevice_id, size, listing) ==
    /\ Idle(p)
    /\ calls < MaxCalls
    /\ calls' = calls + 1
    /\ volumes' = listing
    /\ LET f == [NoFrame EXCEPT !.op = op,
                                !.args = [NoArgs EXCEPT
                                            !.blockdevice_id = blockdevice_id,
                                            !.size = size]]
       IN  result' = Returned(p, f, NoRecord, <<>>, <<>>)
    /\ UNCHANGED <<nova_requests, devnodes, cluster_id, pc, frame, created>>

detach_volume_call(p, blockdevice_id) ==
    Pass(p, "detach", blockdevice_id, Bytes(0, 0),
         detach_volume(volumes, blockdevice_id))

destroy_volume_call(p, blockdevice_id) ==
    Pass(p, "destroy", blockdevice_id, Bytes(0, 0),
         destroy_volume(volumes, blockdevice_id))

resize_volume_call(p, blockdevice_id, size) ==
    Pass(p, "resize", blockdevice_id, size,
         resize_volume(volumes, blockdevice_id, size))

get_device_path_call(p, blockdevice_id) ==
    Pass(p, "get_device_path", blockdevice_id, Bytes(0, 0),
         get_device_path(volumes, blockdevice_id))

(* ------------------------------ provider ------------------------------ *)

SetStatus(listing, i, status) ==
    [listing EXCEPT ![i] = [@ EXCEPT !.status = status]]

\* Provisioning ends: creating -> available.
provider_available(i) ==
    /\ volumes[i].status = "creating"
    /\ volumes' = SetStatus(volumes, i, "available")
    /\ result' = NoResult
    /\ UNCHANGED <<nova_requests, devnodes, cluster_id, pc,
                 frame, calls, created>>

\* Attaching ends: attaching -> in-use.
provider_in_use(i) ==
    /\ volumes[i].status = "attaching"
    /\ volumes' = SetStatus(volumes, i, "in-use")
    /\ result' = NoResult
    /\ UNCHANGED <<nova_requests, devnodes, cluster_id, pc,
                 frame, calls, created>>

\* An in-flight transition fails: creating or attaching -> error.
provider_error(i) ==
    /\ volumes[i].status \in {"creating", "attaching"}
    /\ volumes' = SetStatus(volumes, i, "error")
    /\ result' = NoResult
    /\ UNCHANGED <<nova_requests, devnodes, cluster_id, pc,
                 frame, calls, created>>

\* The device node of an attached volume appears under the requested name.
device_appears(request) ==
    /\ \E i \in 1..Len(volumes) :
        volumes[i].id = request.volume_id /\ volumes[i].status = "in-use"
    /\ request.device \notin devnodes
    /\ devnodes' = devnodes \cup {request.device}
    /\ result' = NoResult
    /\ UNCHANGED <<volumes, nova_requests, cluster_id, pc,
                 frame, calls, created>>

\* The volume a call waits for leaves the provider's listing, deleted by
\* someone else; only the volume listed last does so here, which keeps the
\* ids of the listed volumes distinct.
provider_vanishes(i) ==
    /\ i = Len(volumes)
    /\ \E p \in Procs :
        /\ pc[p] \in {"poll", "elapsed"}
        /\ frame[p].expected_volume = volumes[i].id
    /\ volumes' = SubSeq(volumes, 1, i - 1)
    /\ result' = NoResult
    /\ UNCHANGED <<nova_requests, devnodes, cluster_id, pc,
                 frame, calls, created>>

(* --------------------------- specification ---------------------------- *)

\* The blockdevice_id arguments tried: every id the provider has assigned,
\* and one it has not.
BlockDeviceIds == 1..(Len(volumes) + 1)

\* One caller runs its calls one after another (a call runs to completion
\* before the next starts) while the provider moves on by itself.
Caller == "p1"

Next ==
    \/ \E d \in Datasets, s \in Sizes : create_volume_request(Caller, d, s)
    \/ create_volume_set_metadata(Caller)
    \/ list_volumes_call(Caller)
    \/ \E b \in BlockDeviceIds, h \in Hosts : attach_volume_get(Caller, b, h)
    \/ attach_volume_next_device(Caller)
    \/ attach_volume_request(Caller)
    \/ attach_volume_verify(Caller)
    \/ wait_for_volume_list(Caller)
    \/ wait_for_volume_elapsed(Caller)
    \/ \E b \in BlockDeviceIds : detach_volume_call(Caller, b)
    \/ \E b \in BlockDeviceIds : destroy_volume_call(Caller, b)
    \/ \E b \in BlockDeviceIds, s \in Sizes : resize_volume_call(Caller, b, s)
    \/ \E b \in BlockDeviceIds : get_device_path_call(Caller, b)
    \/ \E i \in 1..Len(volumes) : provider_available(i)
    \/ \E i \in 1..Len(volumes) : provider_in_use(i)
    \/ \E i \in 1..Len(volumes) : provider_error(i)
    \/ \E r \in nova_requests : device_appears(r)

Spec == Init /\ [][Next]_vars

\* Two callers on the same host run attach_volume at the same time: their
\* statements interleave in any order.
NextRace ==
    \/ \E p \in Procs, b \in BlockDeviceIds, h \in Hosts :
            attach_volume_get(p, b, h)
    \/ \E p \in Procs : attach_volume_next_device(p)
    \/ \E p \in Procs : attach_volume_request(p)
    \/ \E p \in Procs : attach_volume_verify(p)
    \/ \E p \in Procs : wait_for_volume_list(p)
    \/ \E p \in Procs : wait_for_volume_elapsed(p)
    \/ \E i \in 1..Len(volumes) : provider_in_use(i)
    \/ \E i \in 1..Len(volumes) : provider_error(i)
    \/ \E r \in nova_requests : device_appears(r)

SpecRace == Init /\ [][NextRace]_vars

\* create_volume alone, on a provider without volumes, over the sizes of
\* CreateSizes.
InitCreate == Init /\ volumes = <<>>

NextCreate ==
    \/ \E s \in CreateSizes : create_volume_request(Caller, "d1", s)
    \/ wait_for_volume_list(Caller)
    \/ wait_for_volume_elapsed(Caller)
    \/ create_volume_set_metadata(Caller)
    \/ \E i \in 1..Len(volumes) : provider_available(i)

SpecCreate == InitCreate /\ [][NextCreate]_vars

\* The calls that wait, with a provider whose volumes may also vanish, and a
\* caller whose thread goes on: the clock advances and the capability calls
\* return.
InitLive == Init /\ Len(volumes) # 1

NextLive ==
    \/ \E s \in Sizes : create_volume_request(Caller, "d1", s)
    \/ create_volume_set_metadata(Caller)
    \/ \E b \in BlockDeviceIds : attach_volume_get(Caller, b, "h1")
    \/ attach_volume_next_device(Caller)
    \/ attach_volume_request(Caller)
    \/ attach_volume_verify(Caller)
    \/ wait_for_volume_list(Caller)
    \/ wait_for_volume_elapsed(Caller)
    \/ \E i \in 1..Len(volumes) : provider_available(i)
    \/ \E i \in 1..Len(volumes) : provider_in_use(i)
    \/ \E i \in 1..Len(volumes) : provider_error(i)
    \/ \E i \in 1..Len(volumes) : provider_vanishes(i)
    \/ \E r \in nova_requests : device_appears(r)

CallerGoesOn ==
    \/ wait_for_volume_list(Caller)
    \/ wait_for_volume_elapsed(Caller)
    \/ create_volume_set_metadata(Caller)
    \/ attach_volume_next_device(Caller)
    \/ attach_volume_request(Caller)
    \/ attach_volume_verify(Caller)

SpecLive == InitLive /\ [][NextLive]_vars /\ WF_vars(CallerGoesOn)

\* attach_volume alone, on hosts with any device nodes: none, some with or
\* without gaps in the letters, or all 26.
InitialDeviceSets == (SUBSET (0..MaxNode)) \cup {0..(NumLetters - 1)}

InitDevice ==
    /\ volumes \in {l \in InitialListings : Len(l) = 2}
    /\ nova_requests = {}
    /\ devnodes \in InitialDeviceSets
    /\ cluster_id \in Clusters
    /\ pc = [p \in Procs |-> "idle"]
    /\ frame = [p \in Procs |-> NoFrame]
    /\ created = {}
    /\ calls = 0
    /\ result = NoResult

NextDevice ==
    \/ \E b \in BlockDeviceIds, h \in Hosts : attach_volume_get(Caller, b, h)
    \/ attach_volume_next_device(Caller)
    \/ attach_volume_request(Caller)
    \/ attach_volume_verify(Caller)
    \/ wait_for_volume_list(Caller)
    \/ wait_for_volume_elapsed(Caller)
    \/ \E i \in 1..Len(volumes) : provider_in_use(i)
    \/ \E r \in nova_requests : device_appears(r)

SpecDevice == InitDevice /\ [][NextDevice]_vars

(* ------------------------------- claims ------------------------------- *)

\* The cluster label of the volume parses to the UUID c.
OwnedBy(c, volume) ==
    /\ volume.metadata[CLUSTER_ID_LABEL].form \in {"canonical", "other"}
    /\ volume.metadata[CLUSTER_ID_LABEL].uuid = c

\* Every record of the sequence is the record of a provider volume owned by c.
AllOwnedBy(c, records) ==
    \A k \in 1..Len(records) :
        \E i \in 1..Len(volumes) :
            /\ volumes[i].id = records[k].blockdevice_id
            /\ OwnedBy(c, volumes[i])

HasRecord(records, blockdevice_id) ==
    \E k \in 1..Len(records) : records[k].blockdevice_id = blockdevice_id

Finished(op) == result.op = op /\ result.status \in {"returned", "raised"}

ReturnedFrom(op) == result.op = op /\ result.status = "returned"

RaisedFrom(op) == result.op = op /\ result.status = "raised"

InTrace(trace, event) == \E k \in 1..Len(trace) : trace[k] = event

\* C1: whatever the provider holds and whichever cluster id an adapter is
\* configured with, every record list_volumes returns is the record of a
\* provider volume whose cluster label parses to that cluster id; a volume
\* of another cluster or without a cluster label is never among them.
C1_ListOnlyOwnCluster ==
    /\ \A c \in Clusters :
        LET listed == list_volumes(c, volumes)
        IN  listed.ok => AllOwnedBy(c, listed.records)
    /\ ReturnedFrom("list") => AllOwnedBy(cluster_id, result.records)

\* list_volumes returned records while the provider also lists a volume of
\* another cluster or an untagged one, which is not among them.
C1_Witness ==
    /\ ReturnedFrom("list")
    /\ Len(result.records) >= 1
    /\ \E i \in 1..Len(volumes) :
        /\ ~OwnedBy(cluster_id, volumes[i])
        /\ ~HasRecord(result.records, volumes[i].id)

\* list_volumes, called now with cluster scope c, returns a record with this
\* blockdevice_id and dataset_id.
Lists(c, blockdevice_id, dataset_id) ==
    LET listed == list_volumes(c, volumes)
    IN  /\ listed.ok
        /\ \E k \in 1..Len(listed.records) :
            /\ listed.records[k].blockdevice_id = blockdevice_id
            /\ listed.records[k].dataset_id = dataset_id

\* list_volumes, called now with cluster scope c, raises on the label of a
\* volume other than this one.
ListRaisesOnOther(c, blockdevice_id) ==
    LET listed == list_volumes(c, volumes)
    IN  /\ ~listed.ok
        /\ listed.error.kind \in {"ValueError", "KeyError"}
        /\ listed.error.target # blockdevice_id

NotListedElsewhere(blockdevice_id) ==
    \A c \in Clusters \ {cluster_id} :
        ~HasRecord(list_volumes(c, volumes).records, blockdevice_id)

\* C2 as stated: once create_volume(D1, size) has returned on an adapter of
\* cluster C1, list_volumes with scope C1 returns the record (its
\* blockdevice_id, dataset D1), and list_volumes with another scope does not.
C2_CreatedIsListed ==
    ReturnedFrom("create") =>
        /\ Lists(cluster_id, result.value.blockdevice_id, result.args.dataset_id)
        /\ NotListedElsewhere(result.value.blockdevice_id)

\* C2 as amended: once create_volume(D1, size) has returned, even when the
\* provider dropped the metadata of the create request, list_volumes with
\* scope C1 returns the record unless it raises on the malformed label of
\* another volume, and list_volumes with another scope never returns it.
C2_CreatedIsListedUnlessListRaises ==
    ReturnedFrom("create") =>
        /\ \/ Lists(cluster_id, result.value.blockdevice_id,
                    result.args.dataset_id)
           \/ ListRaisesOnOther(cluster_id, result.value.blockdevice_id)
        /\ NotListedElsewhere(result.value.blockdevice_id)

\* create_volume returned a volume whose metadata the provider had dropped,
\* and list_volumes returns its record.
C2_Witness ==
    /\ ReturnedFrom("create")
    /\ result.wait.volume.metadata = NoMetadata
    /\ Lists(cluster_id, result.value.blockdevice_id, result.args.dataset_id)

\* Event a comes before event b in the trace.
Before(trace, a, b) ==
    \E i, j \in 1..Len(trace) : i < j /\ trace[i] = a /\ trace[j] = b

\* C3: create_volume returns a record only after a listing has shown the
\* requested volume (the same provider id) with status available; a
\* create_volume whose polls never saw that status raised the timeout and
\* returned no record.
C3_CreateWaitsForAvailable ==
    /\ ReturnedFrom("create") =>
        /\ Before(result.trace, "create", "available")
        /\ Before(result.trace, "available", "set_metadata")
        /\ result.wait.volume.id = result.value.blockdevice_id
        /\ result.wait.volume.status = "available"
    /\ (Finished("create") /\ ~InTrace(result.trace, "available")) =>
        /\ result.status = "raised"
        /\ result.error.kind = "Timeout"
        /\ result.value = NoRecord

\* create_volume returned a record, a listing having shown the volume
\* available.
C3_Witness ==
    /\ ReturnedFrom("create")
    /\ result.wait.volume.status = "available"
    /\ InTrace(result.trace, "available")

\* C4 as stated: when a poll of create_volume or attach_volume shows the
\* awaited volume with status error, the call stops polling and fails with
\* ProvisioningFailed.
C4_ErrorStatusFailsTheCall ==
    /\ \A p \in Procs :
        InTrace(frame[p].trace, "error") => pc[p] \notin {"poll", "elapsed"}
    /\ \A op \in {"create", "attach"} :
        (Finished(op) /\ InTrace(result.trace, "error")) =>
            /\ result.status = "raised"
            /\ result.error.kind = "ProvisioningFailed"

\* C4 as amended: a status of error is not looked at.  A create_volume or
\* attach_volume whose poll showed the awaited volume with status error goes
\* on polling and ends by raising the timeout, with elapsed >= limit; there
\* is no error of its own for a failed provisioning.
C4_ErrorStatusEndsInTimeout ==
    \A op \in {"create", "attach"} :
        (Finished(op) /\ InTrace(result.trace, "error")) =>
            /\ result.status = "raised"
            /\ result.error.kind = "Timeout"
            /\ result.error.elapsed >= result.error.limit

\* A call timed out after a poll had shown its volume with status error.
C4_Witness ==
    /\ \E op \in {"create", "attach"} : RaisedFrom(op)
    /\ InTrace(result.trace, "error")
    /\ result.error.kind = "Timeout"

Count(trace, event) == Cardinality({k \in 1..Len(trace) : trace[k] = event})

\* C5: wait_for_volume returns at the first listing that shows the awaited id
\* with the awaited status: after one listing and no sleep when that is the
\* first listing, after exactly k listings and k-1 sleeps otherwise; the
\* volume it returns has that id and that status.
C5_WaitReturnsAtFirstMatch ==
    result.status = "waited" =>
        /\ result.wait.lists = result.wait.sleeps + 1
        /\ result.wait.volume.id = result.wait.expected_volume
        /\ result.wait.volume.status = result.wait.expected_status
        /\ Count(result.trace, result.wait.expected_status) = 1
        /\ result.trace[Len(result.trace)] = result.wait.expected_status

\* wait_for_volume returned at its second or a later listing.
C5_Witness ==
    /\ result.status = "waited"
    /\ result.wait.lists >= 2
    /\ result.wait.sleeps = result.wait.lists - 1

\* C6: wait_for_volume raises the timeout only when the time elapsed since
\* its start is at least the limit and no listing showed the awaited id with
\* the awaited status; the error carries the awaited volume, the awaited
\* status, the elapsed time and the limit.
C6_TimeoutOnlyPastLimit ==
    result.error.kind = "Timeout" =>
        /\ result.status = "raised"
        /\ result.error.elapsed >= result.error.limit
        /\ result.error.limit = TimeLimit
        /\ result.error.elapsed = result.wait.elapsed
        /\ result.error.target = result.wait.expected_volume
        /\ result.error.expected = result.wait.expected_status
        /\ ~InTrace(result.trace, result.wait.expected_status)
        /\ result.wait.lists >= 1

\* The timeout was raised after at least one sleep, with elapsed past the
\* limit.
C6_Witness ==
    /\ result.error.kind = "Timeout"
    /\ result.wait.sleeps >= 1
    /\ result.error.elapsed > result.error.limit

\* No provider volume with this id is owned by the configured cluster.
NoOwned(blockdevice_id) ==
    ~\E i \in 1..Len(volumes) :
        volumes[i].id = blockdevice_id /\ OwnedBy(cluster_id, volumes[i])

\* This step is the first of an attach_volume of caller p.
AttachStarts(p) ==
    /\ pc[p] = "idle"
    /\ calls' = calls + 1
    /\ \/ pc'[p] = "next_device"
       \/ result'.op = "attach" /\ result'.proc = p

AttachArgument(p) ==
    IF pc'[p] = "next_device" THEN frame'[p].args.blockdevice_id
    ELSE result'.args.blockdevice_id

NothingRequested ==
    /\ nova_requests' = nova_requests
    /\ volumes' = volumes
    /\ devnodes' = devnodes

\* C7 as stated: attach_volume(blockdevice_id, host) raises
\* UnknownVolume(blockdevice_id) whenever no volume owned by the configured
\* cluster has that id; it then sends no attach request and leaves the
\* provider as it was.
C7_UnknownVolumeWhenNotOwned ==
    [][\A p \in Procs :
        (AttachStarts(p) /\ NoOwned(AttachArgument(p))) =>
            /\ result'.status = "raised"
            /\ result'.error.kind = "UnknownVolume"
            /\ result'.error.target = AttachArgument(p)
            /\ NothingRequested]_vars

\* C7 as amended: whenever no volume owned by the configured cluster has the
\* id, attach_volume raises before it sends any request and leaves the
\* provider as it was: UnknownVolume(blockdevice_id) when list_volumes
\* returns, and otherwise the error list_volumes raises on a malformed label;
\* and it raises UnknownVolume in no other case.
C7_RaisesWhenNotOwned ==
    [][\A p \in Procs :
        /\ (AttachStarts(p) /\ NoOwned(AttachArgument(p))) =>
            /\ result'.status = "raised"
            /\ NothingRequested
            /\ IF list_volumes(cluster_id, volumes).ok
               THEN /\ result'.error.kind = "UnknownVolume"
                    /\ result'.error.target = AttachArgument(p)
               ELSE /\ result'.error.kind \in {"ValueError", "KeyError"}
                    /\ result'.error = list_volumes(cluster_id, volumes).error
        /\ (AttachStarts(p) /\ result'.error.kind = "UnknownVolume") =>
            NoOwned(AttachArgument(p))]_vars

\* attach_volume raised UnknownVolume for an id the provider lists, on a
\* volume of another cluster or an untagged one.
C7_Witness ==
    /\ RaisedFrom("attach")
    /\ result.error.kind = "UnknownVolume"
    /\ \E i \in 1..Len(volumes) :
        /\ volumes[i].id = result.args.blockdevice_id
        /\ ~OwnedBy(cluster_id, volumes[i])
    /\ nova_requests = {}

Chosen(p) ==
    /\ frame[p].op = "attach"
    /\ pc[p] \in {"create_server_volume", "poll", "elapsed", "verify"}

\* C9: path allocation is not exclusive.  Callers that run attach_volume on
\* the same host at the same time and have chosen their paths have chosen
\* the same one as long as neither device node exists, so two volumes get
\* attach requests that name one device path.
C9_SamePathUntilNodeExists ==
    \A p, q \in Procs :
        (/\ Chosen(p) /\ Chosen(q)
         /\ frame[p].device_path \notin devnodes
         /\ frame[q].device_path \notin devnodes) =>
            frame[p].device_path = frame[q].device_path

\* Two callers are in attach_volume, each has sent its attach request, the
\* requests name different volumes and one device path, and no such device
\* node exists.
C9_Witness ==
    \E p, q \in Procs :
        /\ p # q
        /\ frame[p].op = "attach" /\ pc[p] \in {"poll", "elapsed"}
        /\ frame[q].op = "attach" /\ pc[q] \in {"poll", "elapsed"}
        /\ frame[p].device_path = frame[q].device_path
        /\ frame[p].device_path \notin devnodes
        /\ \E r1, r2 \in nova_requests :
            /\ r1.volume_id = frame[p].unattached_volume.blockdevice_id
            /\ r2.volume_id = frame[q].unattached_volume.blockdevice_id
            /\ r1.volume_id # r2.volume_id
            /\ r1.device = r2.device
            /\ r1.device = frame[p].device_path

\* The records earlier create_volume calls returned for the dataset of the
\* create_volume that has just returned.
EarlierCreates ==
    {e \in created : /\ e.call # calls
                     /\ e.record.dataset_id = result.value.dataset_id}

ProviderHas(blockdevice_id) ==
    \E i \in 1..Len(volumes) : volumes[i].id = blockdevice_id

\* C10 as stated: a second create_volume with the dataset_id of an earlier
\* one sends another create request and returns a record with another
\* blockdevice_id, and list_volumes then shows both volumes with that
\* dataset_id.
C10_SecondCreateMakesSecondVolume ==
    ReturnedFrom("create") =>
        \A e \in EarlierCreates :
            /\ e.record.blockdevice_id # result.value.blockdevice_id
            /\ ProviderHas(e.record.blockdevice_id)
            /\ ProviderHas(result.value.blockdevice_id)
            /\ Lists(cluster_id, e.record.blockdevice_id,
                     result.value.dataset_id)
            /\ Lists(cluster_id, result.value.blockdevice_id,
                     result.value.dataset_id)

\* C10 as amended: a second create_volume with the dataset_id of an earlier
\* one sends another create request and returns a record with another
\* blockdevice_id; list_volumes then shows both volumes with that dataset_id
\* unless it raises on the malformed label of a third volume.
C10_SecondCreateMakesSecondVolumeUnlessListRaises ==
    ReturnedFrom("create") =>
        \A e \in EarlierCreates :
            /\ e.record.blockdevice_id # result.value.blockdevice_id
            /\ ProviderHas(e.record.blockdevice_id)
            /\ ProviderHas(result.value.blockdevice_id)
            /\ \/ /\ Lists(cluster_id, e.record.blockdevice_id,
                           result.value.dataset_id)
                  /\ Lists(cluster_id, result.value.blockdevice_id,
                           result.value.dataset_id)
               \/ /\ ListRaisesOnOther(cluster_id, e.record.blockdevice_id)
                  /\ ListRaisesOnOther(cluster_id,
                                       result.value.blockdevice_id)

\* A second create_volume for a dataset has returned and list_volumes shows
\* two volumes of the cluster with that dataset_id.
C10_Witness ==
    /\ ReturnedFrom("create")
    /\ \E e \in EarlierCreates :
        /\ e.record.blockdevice_id # result.value.blockdevice_id
        /\ Lists(cluster_id, e.record.blockdevice_id, result.value.dataset_id)
        /\ Lists(cluster_id, result.value.blockdevice_id,
                 result.value.dataset_id)

\* Every volume of cluster c on the provider carries a dataset label that
\* spells a UUID.
DatasetLabelsValid(c) ==
    \A i \in 1..Len(volumes) :
        OwnedBy(c, volumes[i]) => UUID(volumes[i].metadata[DATASET_ID_LABEL]).ok

\* C11 as stated: a provider volume whose cluster label is missing or spells
\* no UUID is left out by the ownership filter without an error, so that
\* list_volumes returns the records of all the correctly tagged volumes of
\* the configured cluster.
C11_MalformedClusterLabelExcluded ==
    (Finished("list") /\ DatasetLabelsValid(cluster_id)) =>
        /\ result.status = "returned"
        /\ \A i \in 1..Len(volumes) :
            OwnedBy(cluster_id, volumes[i]) =>
                HasRecord(result.records, volumes[i].id)

\* The dataset label of the volume is present and spells no UUID.
DatasetLabelMalformed(volume) ==
    /\ volume.metadata[DATASET_ID_LABEL] # None
    /\ ~UUID(volume.metadata[DATASET_ID_LABEL]).ok

\* The provider lists a volume of cluster c with such a dataset label.
HoldsMalformedDataset(c) ==
    \E i \in 1..Len(volumes) :
        OwnedBy(c, volumes[i]) /\ DatasetLabelMalformed(volumes[i])

\* Every returned record carries the dataset id its volume's label spells.
NoCoercedRecord(records) ==
    \A k \in 1..Len(records) :
        /\ records[k].dataset_id \in Datasets
        /\ \E i \in 1..Len(volumes) :
            /\ volumes[i].id = records[k].blockdevice_id
            /\ UUID(volumes[i].metadata[DATASET_ID_LABEL]).ok
            /\ UUID(volumes[i].metadata[DATASET_ID_LABEL]).value
                   = records[k].dataset_id

\* C12 as stated: when a volume of the configured cluster carries a dataset
\* label that spells no UUID, mapping it, and so list_volumes, fails with a
\* MalformedMetadata error; no record is returned for it.
C12_MalformedDatasetRaisesMalformedMetadata ==
    /\ \A i \in 1..Len(volumes) :
        DatasetLabelMalformed(volumes[i]) =>
            LET mapped == _blockdevicevolume_from_cinder_volume(volumes[i])
            IN  ~mapped.ok /\ mapped.error.kind = "MalformedMetadata"
    /\ (Finished("list") /\ HoldsMalformedDataset(cluster_id)) =>
        /\ result.status = "raised"
        /\ result.error.kind = "MalformedMetadata"
    /\ ReturnedFrom("list") => NoCoercedRecord(result.records)

\* C12 as amended: when a volume of the configured cluster carries a dataset
\* label that spells no UUID, mapping it fails with the ValueError of
\* UUID(), and so list_volumes fails with that error unless the label of a
\* volume listed before it has raised first; no record with a coerced or
\* substituted dataset_id is ever returned.
C12_MalformedDatasetRaisesValueError ==
    /\ \A i \in 1..Len(volumes) :
        DatasetLabelMalformed(volumes[i]) =>
            LET mapped == _blockdevicevolume_from_cinder_volume(volumes[i])
            IN  /\ ~mapped.ok
                /\ mapped.error.kind = "ValueError"
                /\ mapped.record = NoRecord
    /\ (Finished("list") /\ HoldsMalformedDataset(cluster_id)) =>
        /\ result.status = "raised"
        /\ result.value = NoRecord /\ result.records = <<>>
        /\ result.error = list_volumes(cluster_id, volumes).error
        /\ result.error.kind \in {"ValueError", "KeyError"}
        /\ \E i \in 1..Len(volumes) :
            /\ volumes[i].id = result.error.target
            /\ \/ DatasetLabelMalformed(volumes[i])
                    /\ result.error.kind = "ValueError"
               \/ \E j \in 1..Len(volumes) :
                    i < j /\ DatasetLabelMalformed(volumes[j])
    /\ ReturnedFrom("list") => NoCoercedRecord(result.records)

\* list_volumes raised the ValueError of the malformed dataset label of a
\* volume of its cluster.
C12_Witness ==
    /\ RaisedFrom("list")
    /\ result.error.kind = "ValueError"
    /\ \E i \in 1..Len(volumes) :
        /\ volumes[i].id = result.error.target
        /\ OwnedBy(cluster_id, volumes[i])
        /\ DatasetLabelMalformed(volumes[i])

\* The byte counts differ by less than 10^9, one gigabyte.
WithinOneUnit(a, b) ==
    \/ a.hi = b.hi
    \/ a.hi = b.hi + 1 /\ a.lo < b.lo
    \/ b.hi = a.hi + 1 /\ b.lo < a.lo

\* C13 as stated: the size of the record create_volume returns differs from
\* the requested size by less than one gigabyte, and for a request of
\* 10 * 2^30 bytes it is the requested size.
C13_SizeRoundTrip ==
    ReturnedFrom("create") =>
        /\ WithinOneUnit(result.value.size, result.args.size)
        /\ result.args.size = TenGiB => result.value.size = TenGiB

\* C14: once its wait has returned, create_volume(dataset_id, size) returns
\* a record whose dataset_id is the argument and whose host is None: the
\* record of the volume the create request returned, with the metadata of
\* the request, also when the listed volume the wait returned has none.
C14_RecordFromRequestedVolume ==
    (result.op = "create" /\ InTrace(result.trace, "set_metadata")) =>
        /\ result.status = "returned"
        /\ result.value.dataset_id = result.args.dataset_id
        /\ result.value.host = NoHost
        /\ result.value.blockdevice_id = result.wait.volume.id
        /\ result.value.size = GBToByte(result.wait.volume.size)
        /\ \E i \in 1..Len(volumes) :
            /\ volumes[i].id = result.value.blockdevice_id
            /\ volumes[i].metadata =
                    create_volume_metadata(cluster_id, result.args.dataset_id)

\* create_volume returned its record although the listed volume its wait
\* had returned carried no metadata.
C14_Witness ==
    /\ ReturnedFrom("create")
    /\ result.wait.volume.metadata = NoMetadata
    /\ result.value.dataset_id = result.args.dataset_id
    /\ result.value.host = NoHost

\* C15: the record a successful attach_volume(blockdevice_id, host) returns
\* has the host of the call and the blockdevice_id, size and dataset_id of
\* the volume of the cluster with that id; the attach request names the
\* local instance, whatever the host argument is.
C15_AttachedRecord ==
    ReturnedFrom("attach") =>
        /\ result.value.host = result.args.host
        /\ result.value.blockdevice_id = result.args.blockdevice_id
        /\ \E i \in 1..Len(volumes) :
            /\ volumes[i].id = result.args.blockdevice_id
            /\ OwnedBy(cluster_id, volumes[i])
            /\ result.value.size = GBToByte(volumes[i].size)
            /\ UUID(volumes[i].metadata[DATASET_ID_LABEL]).ok
            /\ result.value.dataset_id =
                    UUID(volumes[i].metadata[DATASET_ID_LABEL]).value
        /\ \E r \in nova_requests :
            /\ r.volume_id = result.args.blockdevice_id
            /\ r.server_id = local_instance_uuid
        /\ \A r \in nova_requests :
            r.server_id = local_instance_uuid /\ r.server_id \notin Hosts

\* attach_volume returned the record of a volume of the cluster with the
\* host of the call, after a request that names the local instance.
C15_Witness ==
    /\ ReturnedFrom("attach")
    /\ result.value.host \in Hosts
    /\ result.value.dataset_id \in Datasets
    /\ \E r \in nova_requests :
        /\ r.volume_id = result.value.blockdevice_id
        /\ r.server_id = local_instance_uuid

\* C16: when attach_volume has returned the record of a volume and
\* detach_volume(blockdevice_id) is called next, a list_volumes that follows
\* returns a record with that blockdevice_id whose host is None.
C16_DetachedListsWithoutHost ==
    [][(/\ ReturnedFrom("attach")
        /\ result'.op = "detach"
        /\ result'.args.blockdevice_id = result.value.blockdevice_id) =>
            LET listed == list_volumes(cluster_id, volumes')
            IN  /\ result'.status = "returned"
                /\ listed.ok
                /\ \E k \in 1..Len(listed.records) :
                    /\ listed.records[k].blockdevice_id
                           = result.value.blockdevice_id
                    /\ listed.records[k].host = NoHost
                    /\ listed.records[k].dataset_id = result.value.dataset_id]_vars

\* detach_volume has returned for a volume that an attach request made in
\* use with its device node present, and list_volumes returns the record
\* of the volume without a host.
C16_Witness ==
    /\ ReturnedFrom("detach")
    /\ \E r \in nova_requests :
        /\ r.volume_id = result.args.blockdevice_id
        /\ r.device \in devnodes
    /\ \E i \in 1..Len(volumes) :
        /\ volumes[i].id = result.args.blockdevice_id
        /\ volumes[i].status = "in-use"
    /\ LET listed == list_volumes(cluster_id, volumes)
       IN  /\ listed.ok
           /\ \E k \in 1..Len(listed.records) :
                /\ listed.records[k].blockdevice_id
                       = result.args.blockdevice_id
                /\ listed.records[k].host = NoHost

NoOps == {"detach", "destroy", "resize", "get_device_path"}

\* C18: detach_volume, destroy_volume, resize_volume and get_device_path,
\* with a known or an unknown blockdevice_id, return without an error, send
\* nothing to the provider and leave it as it was: list_volumes gives the
\* same records, with the same sizes, after the call as before.
C18_NoOps ==
    [][result'.op \in NoOps =>
        /\ result'.status = "returned"
        /\ result'.value = NoRecord
        /\ volumes' = volumes
        /\ nova_requests' = nova_requests
        /\ devnodes' = devnodes
        /\ list_volumes(cluster_id, volumes')
               = list_volumes(cluster_id, volumes)]_vars

\* destroy_volume has returned for a volume of the cluster, which
\* list_volumes still returns.
C18_Witness ==
    /\ ReturnedFrom("destroy")
    /\ \E i \in 1..Len(volumes) :
        /\ volumes[i].id = result.args.blockdevice_id
        /\ OwnedBy(cluster_id, volumes[i])
    /\ HasRecord(list_volumes(cluster_id, volumes).records,
                 result.args.blockdevice_id)

\* C17 as stated: whatever device nodes the host holds, with gaps in the
\* letters or all 26 of them, the path _next_device returns to attach_volume
\* names no device node that exists.
C17_NextDeviceUnused ==
    [][\A p \in Procs :
        (pc[p] = "next_device" /\ pc'[p] # "next_device") =>
            /\ pc'[p] = "create_server_volume"
            /\ frame'[p].device_path \notin devnodes]_vars

\* C19: with a clock that advances and capability calls that return, every
\* call of create_volume and attach_volume finishes, returning or raising,
\* whatever the provider does with the status of the volume or with the
\* volume; a wait lists at most once per interval of the limit and once
\* more, and sleeps again only after an elapsed time below the limit.
C19_CallsFinish ==
    /\ (pc[Caller] # "idle") ~> (pc[Caller] = "idle")
    /\ [](frame[Caller].lists <= TimeLimit + 1)
    /\ [][(pc[Caller] = "elapsed" /\ pc'[Caller] = "poll") =>
            frame'[Caller].waited <= TimeLimit]_vars

\* A call has raised the timeout for a volume that has left the provider's
\* listing.
C19_Witness ==
    /\ result.status = "raised"
    /\ result.error.kind = "Timeout"
    /\ ~ProviderHas(result.error.target)

\* The i-th provider volume carries no metadata and no running create_volume
\* is about to set them.
Orphaned(i) ==
    /\ volumes[i].metadata = NoMetadata
    /\ ~(/\ frame[Caller].op = "create"
         /\ frame[Caller].requested_volume.id = volumes[i].id)

\* C20: a create_volume that raises the timeout has sent one create request
\* and no set_metadata request, and the volume of that request stays on the
\* provider as the provider stored it; a volume left without metadata in
\* this way keeps none whatever its status becomes, so that list_volumes
\* returns it for no cluster.
C20_TimedOutCreateLeavesOrphan ==
    /\ []((RaisedFrom("create") /\ result.error.kind = "Timeout") =>
            /\ Count(result.trace, "create") = 1
            /\ ~InTrace(result.trace, "set_metadata")
            /\ \E i \in 1..Len(volumes) :
                /\ volumes[i].id = result.error.target
                /\ volumes[i].metadata \in
                       {NoMetadata,
                        create_volume_metadata(cluster_id,
                                               result.args.dataset_id)}
                /\ volumes[i].metadata = NoMetadata => Orphaned(i))
    /\ [][\A i \in 1..Len(volumes) :
            Orphaned(i) =>
                /\ Len(volumes') >= i
                /\ volumes'[i].id = volumes[i].id
                /\ volumes'[i].metadata = NoMetadata
                /\ \A c \in Clusters :
                    ~HasRecord(list_volumes(c, volumes').records,
                               volumes[i].id)]_vars

\* create_volume has raised the timeout; its volume, whose metadata the
\* provider had dropped, has become available since the last listing, and
\* list_volumes returns without it.
C20_Witness ==
    /\ RaisedFrom("create")
    /\ result.error.kind = "Timeout"
    /\ list_volumes(cluster_id, volumes).ok
    /\ ~HasRecord(list_volumes(cluster_id, volumes).records,
                  result.error.target)
    /\ \E i \in 1..Len(volumes) :
        /\ volumes[i].id = result.error.target
        /\ volumes[i].status = "available"
        /\ volumes[i].metadata = NoMetadata

====
